---- MODULE Spec2Model ----
(***************************************************************************)
(* Model of src/App.tsx: the root component of the note-taking app.  The   *)
(* React state of App (useState, lines 11-17), the three effects (load,    *)
(* notes save, tags save; lines 20-55), the handlers (lines 57-85 and      *)
(* 103-106), the derived values filteredNotes and activeNote (lines        *)
(* 87-101) and the two render branches (lines 108-159), together with the  *)
(* localStorage entries 'notes_data' and 'tags_data' the effects read and  *)
(* write.                                                                  *)
(***************************************************************************)
EXTENDS Integers, Sequences, FiniteSets, TLC

(***************************************************************************)
(* Bounds of the model.                                                    *)
(***************************************************************************)
\* crypto.randomUUID() is modelled by a counter; identifiers are 1..MaxId.
MaxId == 3
\* new Date() is modelled by a clock in milliseconds, 0..MaxTime.
MaxTime == 2
\* The storage quota of the origin, in tokens: setItem throws
\* QuotaExceededError when the two items together would exceed it.
Quota == 20

\* JavaScript null (useState<string | null>(null), lines 13-14).  Identifiers
\* are positive, so 0 is free to stand for it.
NULL == 0

(***************************************************************************)
(* Strings.  A string is a sequence of characters; the alphabet has one    *)
(* cased letter and one uncased one.                                       *)
(***************************************************************************)
\* String.prototype.toLowerCase (line 93).
ToLowerCase(s) == [i \in DOMAIN s |-> IF s[i] = "M" THEN "m" ELSE s[i]]

\* String.prototype.includes (line 93): sub occurs in s as a substring.
StrIncludes(s, sub) ==
    \E i \in 0..(Len(s) - Len(sub)) : SubSeq(s, i + 1, i + Len(sub)) = sub

\* Array.prototype.includes on a tag list (line 90).
ArrIncludes(arr, x) == \E i \in DOMAIN arr : arr[i] = x

(***************************************************************************)
(* Timestamps.  Note.createdAt / updatedAt hold ISO-8601 strings; the sort *)
(* parses them back to milliseconds.                                       *)
(***************************************************************************)
\* Date.prototype.toISOString (lines 63-64): seconds part and millisecond part.
ToISOString(t) == [sec |-> t \div 1000, ms |-> t % 1000]

\* new Date(iso).getTime() (line 98).
GetTime(iso) == iso.sec * 1000 + iso.ms

(***************************************************************************)
(* JSON.  A serialized value is a sequence of tokens; a token is a record  *)
(* [k, v]: k is a punctuation mark or a property name, v the property's    *)
(* value.                                                                  *)
(***************************************************************************)
Punct(k) == [k |-> k, v |-> 0]

IsPunct(tok) == tok.k \in {"[", "]", "{", "}", "null"}

\* Property order of a Note literal (lines 58-65) and of a Tag literal (line 82).
NoteKeys == <<"id", "title", "content", "tags", "createdAt", "updatedAt">>
TagKeys == <<"id", "name">>

\* JSON.stringify of one object whose own properties are `keys`, in order.
StringifyObject(obj, keys) ==
    <<Punct("{")>> \o [i \in 1..Len(keys) |-> [k |-> keys[i], v |-> obj[keys[i]]]]
                   \o <<Punct("}")>>

RECURSIVE StringifyItems(_, _)
StringifyItems(arr, keys) ==
    IF arr = <<>> THEN <<>>
    ELSE StringifyObject(Head(arr), keys) \o StringifyItems(Tail(arr), keys)

\* JSON.stringify(notes) / JSON.stringify(tags) (lines 40, 50).
Stringify(arr, keys) == <<Punct("[")>> \o StringifyItems(arr, keys) \o <<Punct("]")>>

\* Index of the first "}" of a token sequence, 0 when there is none.
RECURSIVE CloseIndex(_, _)
CloseIndex(toks, i) ==
    IF i > Len(toks) THEN 0
    ELSE IF toks[i].k = "}" THEN i
    ELSE CloseIndex(toks, i + 1)

\* The object a run of property tokens denotes (a repeated name: the last wins).
ObjectOf(fields) ==
    [key \in {fields[i].k : i \in DOMAIN fields} |->
        LET last == CHOOSE i \in DOMAIN fields :
                        /\ fields[i].k = key
                        /\ \A j \in DOMAIN fields : fields[j].k = key => j <= i
        IN  fields[last].v]

\* The elements of an array, from the tokens between its brackets.
RECURSIVE ParseItems(_)
ParseItems(toks) ==
    IF toks = <<>> THEN [ok |-> TRUE, val |-> <<>>]
    ELSE IF toks[1].k # "{" THEN [ok |-> FALSE, val |-> <<>>]
    ELSE LET close == CloseIndex(toks, 2)
         IN  IF close = 0 THEN [ok |-> FALSE, val |-> <<>>]
             ELSE LET fields == SubSeq(toks, 2, close - 1)
                      rest == ParseItems(SubSeq(toks, close + 1, Len(toks)))
                  IN  IF \E i \in DOMAIN fields : IsPunct(fields[i])
                      THEN [ok |-> FALSE, val |-> <<>>]
                      ELSE [ok |-> rest.ok,
                            val |-> <<ObjectOf(fields)>> \o rest.val]

\* JSON.parse (lines 25, 28).  ok = FALSE: it throws SyntaxError.  ok = TRUE and
\* array = FALSE: the text is valid JSON that is not an array (null).
Parse(text) ==
    IF Len(text) = 1 /\ text[1].k = "null" THEN [ok |-> TRUE, array |-> FALSE, val |-> <<>>]
    ELSE IF Len(text) < 2 \/ text[1].k # "[" \/ text[Len(text)].k # "]"
    THEN [ok |-> FALSE, array |-> FALSE, val |-> <<>>]
    ELSE LET items == ParseItems(SubSeq(text, 2, Len(text) - 1))
         IN  [ok |-> items.ok, array |-> TRUE, val |-> items.val]

(***************************************************************************)
(* localStorage.  An item is absent (getItem returns null) or holds text.  *)
(***************************************************************************)
Absent == [present |-> FALSE, text |-> <<>>]
Item(text) == [present |-> TRUE, text |-> text]

\* The truthiness test `if (storedNotes)` (lines 24, 27): null and '' are falsy.
Truthy(item) == item.present /\ item.text # <<>>

(***************************************************************************)
(* Sample data.                                                            *)
(***************************************************************************)
SearchTerms == {<<>>, <<"M">>}
TagNames == {"work"}

StoredTag == [id |-> 2, name |-> "work"]
StoredNote ==
    [id |-> 1, title |-> <<"M", "e">>, content |-> <<>>, tags |-> <<2>>,
     createdAt |-> ToISOString(0), updatedAt |-> ToISOString(1)]

\* Text that JSON.parse rejects (a truncated array).
Unparseable == <<Punct("["), Punct("{"), Punct("]")>>
\* Valid JSON that is not an array.
NullJSON == <<Punct("null")>>

\* What 'notes_data' may hold when the application starts.
StoredNotesItems ==
    {Absent, Item(<<>>), Item(Unparseable), Item(NullJSON)}
    \cup {Item(Stringify(<<StoredNote>>, NoteKeys))}

\* What 'tags_data' may hold when the application starts.  (App.tsx itself never
\* looks inside tags; a non-array there is consumed only by child components.)
StoredTagsItems ==
    {Absent, Item(Unparseable)}
    \cup {Item(Stringify(ts, TagKeys)) : ts \in {<<>>, <<StoredTag>>}}

\* The first identifier crypto.randomUUID() hands out: above the stored ones.
FirstFreshId == StoredTag.id + 1
\* The clock when the application starts: not before the stored timestamps.
StartTime == GetTime(StoredNote.updatedAt)

(***************************************************************************)
(* State.                                                                  *)
(***************************************************************************)
VARIABLES
    notes,           \* useState<Note[]>([])                      (line 11)
    tags,            \* useState<Tag[]>([])                       (line 12)
    activeNoteId,    \* useState<string | null>(null)             (line 13)
    activeTagId,     \* useState<string | null>(null)             (line 14)
    searchTerm,      \* useState('')                              (line 15)
    isSidebarOpen,   \* useState(false)                           (line 16)
    isInitialized,   \* useState(false)                           (line 17)
    store,           \* localStorage: notes_data, tags_data
    pc,              \* "mounted": first render committed, its effects pending;
                     \* "loaded": the mount effects ran, their state updates are
                     \*           queued; "ready": committed; "crashed": a render
                     \*           threw and React unmounted the tree
    pending,         \* the state updates the load effect queued, and whether
                     \* its catch branch logged (line 31)
    errors,          \* console.error: whether the latest write of each key
                     \* ended in the catch branch (lines 42, 52)
    nextId,          \* the next identifier crypto.randomUUID() returns
    now,             \* the clock
    lastOp           \* history: the last operation and its argument

vars == <<notes, tags, activeNoteId, activeTagId, searchTerm, isSidebarOpen,
          isInitialized, store, pc, pending, errors, nextId, now,
          lastOp>>

NoUpdate == [set |-> FALSE, array |-> TRUE, val |-> <<>>]
NoPending == [notes |-> NoUpdate, tags |-> NoUpdate, init |-> FALSE,
              readThrew |-> FALSE, failed |-> FALSE]
\* `active` is the activeNoteId the handler saw; kept for delete only.
\* `result` holds what the handler returned, when it returns something.
Op(name, arg) == [op |-> name, arg |-> arg, active |-> NULL, result |-> <<>>]

Init ==
    /\ notes = <<>>
    /\ tags = <<>>
    /\ activeNoteId = NULL
    /\ activeTagId = NULL
    /\ searchTerm = <<>>
    /\ isSidebarOpen = FALSE
    /\ isInitialized = FALSE
    /\ store \in [notes_data : StoredNotesItems, tags_data : StoredTagsItems]
    /\ pc = "mounted"
    /\ pending = NoPending
    /\ errors = [notes |-> FALSE, tags |-> FALSE]
    /\ nextId = FirstFreshId
    /\ now = StartTime
    /\ lastOp = Op("mount", NULL)

(***************************************************************************)
(* Effects.                                                                *)
(***************************************************************************)
\* The load effect (lines 20-35): the state updates it queues and whether its
\* catch branch ran.  readThrows: localStorage.getItem throws.
LoadEffect(st, readThrows) ==
    LET pn == Parse(st.notes_data.text)
        pt == Parse(st.tags_data.text)
        notesSet == ~readThrows /\ Truthy(st.notes_data) /\ pn.ok
        notesThrew == ~readThrows /\ Truthy(st.notes_data) /\ ~pn.ok
        tagsReached == ~readThrows /\ ~notesThrew
        tagsSet == tagsReached /\ Truthy(st.tags_data) /\ pt.ok
        tagsThrew == tagsReached /\ Truthy(st.tags_data) /\ ~pt.ok
    IN  [notes |-> IF notesSet
                   THEN [set |-> TRUE, array |-> pn.array, val |-> pn.val]
                   ELSE NoUpdate,
         tags |-> IF tagsSet
                  THEN [set |-> TRUE, array |-> pt.array, val |-> pt.val]
                  ELSE NoUpdate,
         init |-> TRUE,
         readThrew |-> readThrows,
         failed |-> readThrows \/ notesThrew \/ tagsThrew]

\* Mutant of SaveGate: the save effects do not test isInitialized.
SaveGateOpen(init) == TRUE

\* Whether a save effect that sees `init` in its closure calls setItem
\* (lines 38, 48).
SaveGate(init) == init

\* Whether localStorage.setItem(key, text) returns: it throws when the quota
\* is exceeded.
Fits(st, key, text) ==
    LET other == IF key = "notes_data" THEN st.tags_data ELSE st.notes_data
    IN  Len(text) + Len(other.text) <= Quota

\* Mutant of NotesSaveEffect: only the first note is written.
NotesSaveEffectFirstOnly(st, init, ns) ==
    IF SaveGate(init) /\ Fits(st, "notes_data", Stringify(ns, NoteKeys))
    THEN [st EXCEPT !.notes_data =
              Item(Stringify(IF ns = <<>> THEN ns ELSE <<Head(ns)>>, NoteKeys))]
    ELSE st

\* Mutant of NotesSaveEffect: the notes are written under the tags key.
NotesSaveEffectWrongKey(st, init, ns) ==
    IF SaveGate(init) /\ Fits(st, "notes_data", Stringify(ns, NoteKeys))
    THEN [st EXCEPT !.tags_data = Item(Stringify(ns, NoteKeys))]
    ELSE st

\* The notes save effect (lines 37-45) run with `init` and `ns` in its closure.
NotesSaveEffect(st, init, ns) ==
    IF SaveGate(init) /\ Fits(st, "notes_data", Stringify(ns, NoteKeys))
    THEN [st EXCEPT !.notes_data = Item(Stringify(ns, NoteKeys))]
    ELSE st

\* Whether the catch branch of the notes save effect logs (line 42).
NotesSaveFails(st, init, ns) ==
    SaveGate(init) /\ ~Fits(st, "notes_data", Stringify(ns, NoteKeys))

\* Mutant of TagsSaveEffect: the tags are written under both keys.
TagsSaveEffectBothKeys(st, init, ts) ==
    IF SaveGate(init) /\ Fits(st, "tags_data", Stringify(ts, TagKeys))
    THEN [notes_data |-> Item(Stringify(ts, TagKeys)),
          tags_data |-> Item(Stringify(ts, TagKeys))]
    ELSE st

\* The tags save effect (lines 47-55).
TagsSaveEffect(st, init, ts) ==
    IF SaveGate(init) /\ Fits(st, "tags_data", Stringify(ts, TagKeys))
    THEN [st EXCEPT !.tags_data = Item(Stringify(ts, TagKeys))]
    ELSE st

\* Whether the catch branch of the tags save effect logs (line 52).
TagsSaveFails(st, init, ts) ==
    SaveGate(init) /\ ~Fits(st, "tags_data", Stringify(ts, TagKeys))

\* Mutant of AfterSave: a failed write rolls the collection back.
AfterSaveRollback(prev, next, failed) == IF failed THEN prev ELSE next

\* The in-memory collection after its save effect ran: the catch branches
\* (lines 41-43, 51-53) only log, the state the render committed stays.
AfterSave(prev, next, failed) == next

\* The save effects of one commit, notes before tags: runNotes / runTags say
\* whose dependencies changed; init, ns, ts are the values of the render being
\* committed.
SaveEffects(init, ns, ts, runNotes, runTags) ==
    LET st1 == IF runNotes THEN NotesSaveEffect(store, init, ns) ELSE store
        st2 == IF runTags THEN TagsSaveEffect(st1, init, ts) ELSE st1
    IN  /\ store' = st2
        /\ errors' = [notes |-> IF runNotes /\ SaveGate(init)
                                 THEN NotesSaveFails(store, init, ns)
                                 ELSE errors.notes,
                       tags |-> IF runTags /\ SaveGate(init)
                                THEN TagsSaveFails(st1, init, ts)
                                ELSE errors.tags]

(***************************************************************************)
(* Startup.                                                                *)
(***************************************************************************)
\* The effects of the first commit, in order: load, notes save, tags save.  All
\* three see the first render's values (notes = [], tags = [],
\* isInitialized = false); the load effect's state updates are queued.
MountEffects ==
    /\ pc = "mounted"
    /\ \E readThrows \in BOOLEAN : pending' = LoadEffect(store, readThrows)
    /\ SaveEffects(isInitialized, notes, tags, TRUE, TRUE)
    /\ pc' = "loaded"
    /\ lastOp' = Op("load", NULL)
    /\ UNCHANGED <<notes, tags, activeNoteId, activeTagId, searchTerm,
                   isSidebarOpen, isInitialized, nextId, now>>

\* The render of App (lines 87-159) throws when notes is not an array:
\* notes.filter (line 88) is not a function.
RenderThrows(notesIsArray) == ~notesIsArray

\* React renders the queued updates.  A render that throws unmounts the tree
\* (there is no error boundary); otherwise the render is committed and both
\* save effects run, isInitialized being a dependency of each (lines 45, 55).
InitCommit ==
    /\ pc = "loaded"
    /\ lastOp' = Op("commit", NULL)
    /\ UNCHANGED <<activeNoteId, activeTagId, searchTerm, isSidebarOpen,
                   nextId, now>>
    /\ pending' = NoPending
    /\ IF RenderThrows(pending.notes.array)
       THEN /\ pc' = "crashed"
            /\ UNCHANGED <<notes, tags, isInitialized, store, errors>>
       ELSE LET ns == IF pending.notes.set THEN pending.notes.val ELSE notes
                ts == IF pending.tags.set THEN pending.tags.val ELSE tags
            IN  /\ pc' = "ready"
                /\ notes' = AfterSave(notes, ns,
                                       NotesSaveFails(store, pending.init, ns))
                /\ tags' = AfterSave(tags, ts,
                                      TagsSaveFails(store, pending.init, ts))
                /\ isInitialized' = pending.init
                /\ SaveEffects(pending.init, ns, ts, TRUE, TRUE)

\* The collections a start of the application against the store st commits:
\* the initial [] of lines 11-12 unless the load effect sets them.  ok: the
\* load did not fail and the render did not throw.
Restart(st) ==
    LET p == LoadEffect(st, FALSE)
    IN  [ok |-> ~p.failed /\ ~RenderThrows(p.notes.array),
         notes |-> IF p.notes.set THEN p.notes.val ELSE <<>>,
         tags |-> IF p.tags.set THEN p.tags.val ELSE <<>>]

(***************************************************************************)
(* Derived values of a render.                                             *)
(***************************************************************************)
\* The filter callback (lines 89-97).
Matches(note, tagId, term) ==
    IF tagId # NULL /\ ~ArrIncludes(note.tags, tagId) THEN FALSE
    ELSE IF /\ term # <<>>
            /\ ~StrIncludes(ToLowerCase(note.title), ToLowerCase(term))
            /\ ~StrIncludes(ToLowerCase(note.content), ToLowerCase(term))
    THEN FALSE
    ELSE TRUE

\* Array.prototype.filter.
RECURSIVE Filter(_, _, _)
Filter(arr, tagId, term) ==
    IF arr = <<>> THEN <<>>
    ELSE IF Matches(Head(arr), tagId, term)
         THEN <<Head(arr)>> \o Filter(Tail(arr), tagId, term)
         ELSE Filter(Tail(arr), tagId, term)

\* Mutant of Compare: the operands of the subtraction are swapped.
CompareAscending(a, b) == GetTime(a.updatedAt) - GetTime(b.updatedAt)

\* The sort callback (line 98): negative when a goes first.
Compare(a, b) == GetTime(b.updatedAt) - GetTime(a.updatedAt)

\* Mutant of Insert: x also goes before the elements it ties with.
RECURSIVE InsertUnstable(_, _)
InsertUnstable(sorted, x) ==
    IF sorted = <<>> THEN <<x>>
    ELSE IF Compare(x, Head(sorted)) <= 0 THEN <<x>> \o sorted
    ELSE <<Head(sorted)>> \o InsertUnstable(Tail(sorted), x)

\* One step of a stable sort: x, which followed every element of `sorted` in
\* the input, goes behind every element it does not strictly precede.
RECURSIVE Insert(_, _)
Insert(sorted, x) ==
    IF sorted = <<>> THEN <<x>>
    ELSE IF Compare(x, Head(sorted)) < 0 THEN <<x>> \o sorted
    ELSE <<Head(sorted)>> \o Insert(Tail(sorted), x)

\* Array.prototype.sort with a comparator: stable (ECMAScript 2019).
RECURSIVE SortFrom(_, _)
SortFrom(sorted, rest) ==
    IF rest = <<>> THEN sorted
    ELSE SortFrom(Insert(sorted, Head(rest)), Tail(rest))

Sort(arr) == SortFrom(<<>>, arr)

\* filteredNotes (lines 87-99).
FilteredNotesOf(ns, tagId, term) == Sort(Filter(ns, tagId, term))
FilteredNotes == FilteredNotesOf(notes, activeTagId, searchTerm)

\* Mutant of NotesAfterRender: sort is called on notes itself.
NotesAfterRenderSorted(ns, tagId, term) == Sort(ns)

\* The notes array after useMemo recomputed filteredNotes (lines 87-99):
\* filter returns a new array and sort, which sorts in place, is called on
\* that one.
NotesAfterRender(ns, tagId, term) == ns

\* activeNote (line 101): whether notes.find returns a note.
HasActiveNote == \E i \in DOMAIN notes : notes[i].id = activeNoteId

\* What App renders (lines 108-114, 126-151).
View ==
    IF pc = "crashed" THEN "blank"
    ELSE IF ~isInitialized THEN "loading"
    ELSE IF ~HasActiveNote THEN "list"
    ELSE "editor"

Interactive == View \in {"list", "editor"}

(***************************************************************************)
(* State updaters of the handlers.                                         *)
(***************************************************************************)
\* The Note literal of handleAddNote (lines 58-65); t1 and t2 are the two
\* readings of the clock.
NewNote(id, tagId, t1, t2) ==
    [id |-> id, title |-> <<>>, content |-> <<>>,
     tags |-> IF tagId # NULL THEN <<tagId>> ELSE <<>>,
     createdAt |-> ToISOString(t1), updatedAt |-> ToISOString(t2)]

\* Mutant of AddNote: the new note goes to the end.
AddNoteAtEnd(prev, newNote) == Append(prev, newNote)

\* prev => [newNote, ...prev] (line 66).
AddNote(prev, newNote) == <<newNote>> \o prev

\* Mutant of SaveNote: the record is put in front, the old one removed.
SaveNoteMoveToFront(prev, updatedNote) ==
    <<updatedNote>> \o SelectSeq(prev, LAMBDA n : n.id # updatedNote.id)

\* Mutant of SaveNote: map replaces every note, the identifier is not tested.
RECURSIVE SaveNoteAll(_, _)
SaveNoteAll(prev, updatedNote) ==
    IF prev = <<>> THEN <<>>
    ELSE <<updatedNote>> \o SaveNoteAll(Tail(prev), updatedNote)

\* prev => prev.map(n => n.id === updatedNote.id ? updatedNote : n) (line 71).
RECURSIVE SaveNote(_, _)
SaveNote(prev, updatedNote) ==
    IF prev = <<>> THEN <<>>
    ELSE <<IF Head(prev).id = updatedNote.id THEN updatedNote ELSE Head(prev)>>
         \o SaveNote(Tail(prev), updatedNote)

\* Mutant of DeleteNote: the test of the filter is inverted.
DeleteNoteKeepsMatch(prev, noteId) == SelectSeq(prev, LAMBDA n : n.id = noteId)

\* prev => prev.filter(n => n.id !== noteId) (line 75).
RECURSIVE DeleteNote(_, _)
DeleteNote(prev, noteId) ==
    IF prev = <<>> THEN <<>>
    ELSE IF Head(prev).id # noteId
         THEN <<Head(prev)>> \o DeleteNote(Tail(prev), noteId)
         ELSE DeleteNote(Tail(prev), noteId)

\* Mutant of ActiveAfterDelete: the selection is kept whatever is deleted.
ActiveAfterDeleteKeeps(active, noteId) == active

\* Mutant of ActiveAfterDelete: the selection is cleared whatever is deleted.
ActiveAfterDeleteClears(active, noteId) == NULL

\* The selection after handleDeleteNote (lines 76-78).
ActiveAfterDelete(active, noteId) == IF active = noteId THEN NULL ELSE active

\* Mutant of AddTag: the new tag is put in front.
AddTagAtFront(prev, newTag) == <<newTag>> \o prev

\* prev => [...prev, newTag] (line 83).
AddTag(prev, newTag) == Append(prev, newTag)

NoteIds == {notes[i].id : i \in DOMAIN notes}
TagIds == {tags[i].id : i \in DOMAIN tags}

\* Identifiers a handler may be called with: those of the notes, and one that
\* matches no note.
CallIds == NoteIds \cup {nextId}

\* Replacement records handleSaveNote may be called with.
SaveInputs ==
    [id : CallIds, title : {<<"m">>}, content : {<<"M", "e">>},
     tags : {<<>>} \cup {<<t>> : t \in TagIds},
     createdAt : {ToISOString(0)},
     updatedAt : {ToISOString(MaxTime)}]

(***************************************************************************)
(* Handlers.  A handler runs in the interactive view; React renders its     *)
(* state updates and runs the save effect whose dependency changed before   *)
(* the next event is handled.                                               *)
(***************************************************************************)
\* handleAddNote (lines 57-68), called by the FAB of the list view.
HandleAddNote ==
    /\ View = "list"
    /\ nextId <= MaxId
    /\ \E t1 \in now..MaxTime :
       \E t2 \in t1..MaxTime :
         LET newNote == NewNote(nextId, activeTagId, t1, t2)
             ns == AddNote(notes, newNote)
         IN  /\ notes' = AfterSave(notes, ns,
                                    NotesSaveFails(store, isInitialized, ns))
             /\ activeNoteId' = newNote.id
             /\ now' = t2
             /\ SaveEffects(isInitialized, ns, tags, TRUE, FALSE)
    /\ nextId' = nextId + 1
    /\ lastOp' = Op("create", nextId)
    /\ UNCHANGED <<tags, activeTagId, searchTerm, isSidebarOpen,
                   isInitialized, pc, pending>>

\* handleSaveNote (lines 70-72), called by the editor.
HandleSaveNote ==
    /\ View = "editor"
    /\ \E updatedNote \in SaveInputs :
         LET ns == SaveNote(notes, updatedNote)
         IN  /\ notes' = AfterSave(notes, ns,
                                    NotesSaveFails(store, isInitialized, ns))
             /\ lastOp' = Op("save", updatedNote.id)
             /\ SaveEffects(isInitialized, ns, tags, TRUE, FALSE)
    /\ UNCHANGED <<tags, activeNoteId, activeTagId, searchTerm, isSidebarOpen,
                   isInitialized, pc, pending, nextId, now>>

\* handleDeleteNote (lines 74-79), called by the list and by the editor.
HandleDeleteNote ==
    /\ Interactive
    /\ \E noteId \in CallIds :
         LET ns == DeleteNote(notes, noteId)
         IN  /\ notes' = AfterSave(notes, ns,
                                    NotesSaveFails(store, isInitialized, ns))
             /\ activeNoteId' = ActiveAfterDelete(activeNoteId, noteId)
             /\ lastOp' = [Op("delete", noteId) EXCEPT !.active = activeNoteId]
             /\ SaveEffects(isInitialized, ns, tags, TRUE, FALSE)
    /\ UNCHANGED <<tags, activeTagId, searchTerm, isSidebarOpen,
                   isInitialized, pc, pending, nextId, now>>

\* handleAddTag (lines 81-85), called by the editor.
HandleAddTag ==
    /\ View = "editor"
    /\ nextId <= MaxId
    /\ \E tagName \in TagNames :
         LET newTag == [id |-> nextId, name |-> tagName]
             ts == AddTag(tags, newTag)
         IN  /\ tags' = AfterSave(tags, ts,
                                   TagsSaveFails(store, isInitialized, ts))
             /\ SaveEffects(isInitialized, notes, ts, FALSE, TRUE)
             /\ lastOp' = [Op("addTag", nextId) EXCEPT !.result = <<newTag>>]
    /\ nextId' = nextId + 1
    /\ UNCHANGED <<notes, activeNoteId, activeTagId, searchTerm, isSidebarOpen,
                   isInitialized, pc, pending, now>>

\* Mutant of HandleSelectTag: the sidebar flag is left as it is.
HandleSelectTagKeepsSidebar ==
    /\ Interactive
    /\ \E tagId \in TagIds \cup {NULL} :
         /\ activeTagId' = tagId
         /\ lastOp' = Op("selectTag", tagId)
    /\ UNCHANGED <<notes, tags, activeNoteId, searchTerm, isInitialized, store,
                   pc, pending, errors, nextId, now, isSidebarOpen>>

\* handleSelectTag (lines 103-106), called by the sidebar with a tag or null.
HandleSelectTag ==
    /\ Interactive
    /\ \E tagId \in TagIds \cup {NULL} :
         /\ activeTagId' = tagId
         /\ lastOp' = Op("selectTag", tagId)
         /\ notes' = NotesAfterRender(notes, tagId, searchTerm)
    /\ isSidebarOpen' = FALSE
    /\ UNCHANGED <<tags, activeNoteId, searchTerm, isInitialized, store,
                   pc, pending, errors, nextId, now>>

\* onSelectNote={setActiveNoteId} (line 134): a note of the displayed list.
SelectNote ==
    /\ View = "list"
    /\ \E i \in DOMAIN FilteredNotes : activeNoteId' = FilteredNotes[i].id
    /\ lastOp' = Op("ui", NULL)
    /\ UNCHANGED <<notes, tags, activeTagId, searchTerm, isSidebarOpen,
                   isInitialized, store, pc, pending, errors, nextId, now>>

\* onBack={() => setActiveNoteId(null)} (line 148).
Back ==
    /\ View = "editor"
    /\ activeNoteId' = NULL
    /\ lastOp' = Op("ui", NULL)
    /\ UNCHANGED <<notes, tags, activeTagId, searchTerm, isSidebarOpen,
                   isInitialized, store, pc, pending, errors, nextId, now>>

\* onSearchChange={setSearchTerm} (line 137).
SetSearchTerm ==
    /\ View = "list"
    /\ \E term \in SearchTerms :
         /\ searchTerm' = term
         /\ notes' = NotesAfterRender(notes, activeTagId, term)
    /\ lastOp' = Op("ui", NULL)
    /\ UNCHANGED <<tags, activeNoteId, activeTagId, isSidebarOpen,
                   isInitialized, store, pc, pending, errors, nextId, now>>

\* setIsSidebarOpen(true) (line 128) and onClose (line 123).
ToggleSidebar ==
    /\ IF isSidebarOpen THEN Interactive ELSE View = "list"
    /\ isSidebarOpen' = ~isSidebarOpen
    /\ lastOp' = Op("ui", NULL)
    /\ UNCHANGED <<notes, tags, activeNoteId, activeTagId, searchTerm,
                   isInitialized, store, pc, pending, errors, nextId, now>>

Next ==
    \/ MountEffects
    \/ InitCommit
    \/ HandleAddNote
    \/ HandleSaveNote
    \/ HandleDeleteNote
    \/ HandleAddTag
    \/ HandleSelectTag
    \/ SelectNote
    \/ Back
    \/ SetSearchTerm
    \/ ToggleSidebar

Spec == Init /\ [][Next]_vars

(***************************************************************************)
(* The filtered view on its own: the application started against a store   *)
(* that holds up to three notes, then the tag filter and the search term   *)
(* change.                                                                 *)
(***************************************************************************)
\* Notes as the store may hold them; the identifier is given by the position.
ViewNote(id, text, tagList, t) ==
    [id |-> id, title |-> text[1], content |-> text[2], tags |-> tagList,
     createdAt |-> ToISOString(0), updatedAt |-> ToISOString(t)]

ViewTexts == {<< <<"M", "e">>, <<>> >>, << <<>>, <<"m">> >>, << <<>>, <<>> >>}
ViewTagLists == {<<>>, <<StoredTag.id>>}

ViewNotesAt(id) ==
    {ViewNote(id, text, tagList, t) :
        text \in ViewTexts, tagList \in ViewTagLists, t \in 0..MaxTime}

ViewNoteLists ==
    {<<>>}
    \cup {<<a>> : a \in ViewNotesAt(3)}
    \cup {<<a, b>> : a \in ViewNotesAt(3), b \in ViewNotesAt(4)}
    \cup {<<a, b, c>> :
            a \in ViewNotesAt(3), b \in ViewNotesAt(4), c \in ViewNotesAt(5)}

InitView ==
    /\ notes = <<>>
    /\ tags = <<>>
    /\ activeNoteId = NULL
    /\ activeTagId = NULL
    /\ searchTerm = <<>>
    /\ isSidebarOpen = FALSE
    /\ isInitialized = FALSE
    /\ \E ns \in ViewNoteLists :
         store = [notes_data |-> Item(Stringify(ns, NoteKeys)),
                  tags_data |-> Item(Stringify(<<StoredTag>>, TagKeys))]
    /\ pc = "mounted"
    /\ pending = NoPending
    /\ errors = [notes |-> FALSE, tags |-> FALSE]
    /\ nextId = MaxId + 1
    /\ now = MaxTime
    /\ lastOp = Op("mount", NULL)

NextView ==
    \/ MountEffects
    \/ InitCommit
    \/ HandleSelectTag
    \/ SetSearchTerm

SpecView == InitView /\ [][NextView]_vars

(***************************************************************************)
(* Properties.                                                             *)
(***************************************************************************)
\* The item holds a well-formed, non-empty collection.
WellFormedNonEmpty(item) ==
    /\ Truthy(item)
    /\ LET p == Parse(item.text) IN p.ok /\ p.array /\ p.val # <<>>

\* The step in which a handler or the startup commit ran a save effect of the
\* notes / of the tags and the effect's setItem threw.
NotesWriteFailedStep ==
    lastOp'.op \in {"commit", "create", "save", "delete"} /\ errors'.notes
TagsWriteFailedStep ==
    lastOp'.op \in {"commit", "addTag"} /\ errors'.tags

\* C1: startup never overwrites stored data with the default empty state.  In
\* every step taken while initialization is not complete (the mount effects,
\* and the commit whose save effects make the first writes), and the store
\* having been readable, a key that holds a well-formed non-empty collection
\* keeps its value, and when the step completes initialization the collection
\* it serializes for that key is the stored one, whatever the other key holds.
C1_StartupKeepsStoredData ==
    [][(~isInitialized /\ ~pending.readThrew) =>
        /\ WellFormedNonEmpty(store.notes_data) =>
             /\ store'.notes_data = store.notes_data
             /\ isInitialized' =>
                  Stringify(notes', NoteKeys) = store.notes_data.text
        /\ WellFormedNonEmpty(store.tags_data) =>
             /\ store'.tags_data = store.tags_data
             /\ isInitialized' =>
                  Stringify(tags', TagKeys) = store.tags_data.text]_vars

\* C2: isInitialized goes from false to true and never back; it is marked
\* (setIsInitialized(true) is queued) by the mount effects, always and only
\* there; and every step that writes to the store, or tries to, ends with
\* initialization complete.
C2_InitOnceAndWritesGated ==
    [][/\ isInitialized => isInitialized'
       /\ (pending'.init /\ ~pending.init) => (pc = "mounted" /\ ~isInitialized)
       /\ (pc = "mounted" /\ pc' # "mounted") => pending'.init
       /\ (store' # store \/ errors' # errors) => isInitialized']_vars

C2_Witness ==
    /\ lastOp.op = "commit"
    /\ isInitialized
    /\ notes = <<StoredNote>>
    /\ store.notes_data = Item(Stringify(notes, NoteKeys))
    /\ store.tags_data = Item(Stringify(tags, TagKeys))

\* C3: if the startup load failed (the catch branch of the load effect ran),
\* both collections are empty when initialization completes.
C3_FailedLoadLeavesEmpty ==
    [][(pending.failed /\ ~isInitialized /\ isInitialized') =>
          (notes' = <<>> /\ tags' = <<>>)]_vars

\* C4: whatever the store holds at startup, once the mount effects have run
\* and React has rendered their updates the application shows the interactive
\* view (list or editor).
C4_StartupReachesInteractive ==
    pc \notin {"mounted", "loaded"} => Interactive

\* C5: the notes collection never holds two records with the same identifier.
C5_NoDuplicateIds ==
    \A i \in DOMAIN notes : \A j \in DOMAIN notes :
        i # j => notes[i].id # notes[j].id

C5_Witness ==
    /\ lastOp.op = "save"
    /\ Len(notes) = 2
    /\ \E i \in DOMAIN notes : notes[i].id = lastOp.arg
    /\ \E i \in DOMAIN notes : notes[i].id >= FirstFreshId

\* C6: deleting the note whose identifier equals activeNoteId sets
\* activeNoteId to null; deleting any other identifier leaves it unchanged.
C6_DeleteAndSelection ==
    [][lastOp'.op = "delete" =>
          /\ activeNoteId = lastOp'.arg => activeNoteId' = NULL
          /\ activeNoteId # lastOp'.arg => activeNoteId' = activeNoteId]_vars

C6_Witness ==
    /\ lastOp.op = "delete"
    /\ lastOp.active = lastOp.arg
    /\ activeNoteId = NULL

\* C7: the filtered+sorted view holds exactly the notes that pass the tag
\* filter and the search, ordered by updatedAt descending, notes of equal
\* updatedAt in their order of the notes collection.
Kept(note, tagId, term) ==
    /\ tagId = NULL \/ \E i \in DOMAIN note.tags : note.tags[i] = tagId
    /\ \/ term = <<>>
       \/ StrIncludes(ToLowerCase(note.title), ToLowerCase(term))
       \/ StrIncludes(ToLowerCase(note.content), ToLowerCase(term))

IsViewOf(view, ns, tagId, term) ==
    LET kept == {i \in DOMAIN ns : Kept(ns[i], tagId, term)}
    IN  /\ Len(view) = Cardinality(kept)
        /\ \E f \in [DOMAIN view -> kept] :
             /\ \A i \in DOMAIN view : view[i] = ns[f[i]]
             /\ \A i \in DOMAIN view : \A j \in DOMAIN view :
                  i < j =>
                    \/ GetTime(view[i].updatedAt) > GetTime(view[j].updatedAt)
                    \/ /\ GetTime(view[i].updatedAt) = GetTime(view[j].updatedAt)
                       /\ f[i] < f[j]

C7_ViewFiltersAndSorts ==
    isInitialized => IsViewOf(FilteredNotes, notes, activeTagId, searchTerm)

\* Three notes, a tag filter and a search term set, two notes pass with equal
\* updatedAt, and a third one, newer than both, is filtered out.
C7_Witness ==
    /\ isInitialized
    /\ Len(notes) = 3
    /\ activeTagId # NULL
    /\ searchTerm # <<>>
    /\ Len(FilteredNotes) = 2
    /\ FilteredNotes[1].updatedAt = FilteredNotes[2].updatedAt
    /\ FilteredNotes[1].title # FilteredNotes[2].title
    /\ \E i \in DOMAIN notes :
         GetTime(notes[i].updatedAt) > GetTime(FilteredNotes[1].updatedAt)

C9_FailedWriteKeepsMemory ==
    [][/\ NotesWriteFailedStep =>
            /\ store'.notes_data = store.notes_data
            /\ Interactive'
            /\ lastOp'.op = "create" =>
                 /\ Len(notes') = Len(notes) + 1
                 /\ Tail(notes') = notes
                 /\ notes'[1].id = lastOp'.arg
                 /\ activeNoteId' = lastOp'.arg
            /\ lastOp'.op = "save" =>
                 /\ \E u \in SaveInputs :
                      u.id = lastOp'.arg /\ notes' = SaveNote(notes, u)
                 /\ activeNoteId' = activeNoteId
            /\ lastOp'.op = "delete" =>
                 /\ notes' = DeleteNote(notes, lastOp'.arg)
                 /\ activeNoteId' =
                      IF activeNoteId = lastOp'.arg THEN NULL ELSE activeNoteId
            /\ lastOp'.op # "commit" => tags' = tags
       /\ TagsWriteFailedStep =>
            /\ store'.tags_data = store.tags_data
            /\ Interactive'
            /\ lastOp'.op = "addTag" =>
                 /\ Len(tags') = Len(tags) + 1
                 /\ SubSeq(tags', 1, Len(tags)) = tags
                 /\ tags'[Len(tags')].id = lastOp'.arg
                 /\ notes' = notes
                 /\ activeNoteId' = activeNoteId]_vars

C9_Witness ==
    /\ lastOp.op = "create"
    /\ errors.notes
    /\ Len(notes) = 2
    /\ notes[1].id = lastOp.arg
    /\ activeNoteId = lastOp.arg
    /\ store.notes_data = Item(Stringify(Tail(notes), NoteKeys))
    /\ View = "editor"

\* C10: create puts exactly one new note in front of the existing ones: a
\* fresh identifier, empty title and content, the tag list [activeTagId] when
\* a filter is active and empty otherwise, createdAt and updatedAt readings of
\* the clock taken during the operation; and it becomes the active note.
C10_CreateInsertsAtFront ==
    [][lastOp'.op = "create" =>
          /\ Len(notes') = Len(notes) + 1
          /\ Tail(notes') = notes
          /\ LET n == Head(notes')
             IN  /\ \A i \in DOMAIN notes : notes[i].id # n.id
                 /\ n.title = <<>>
                 /\ n.content = <<>>
                 /\ n.tags = IF activeTagId # NULL THEN <<activeTagId>>
                                                   ELSE <<>>
                 /\ now <= GetTime(n.createdAt)
                 /\ GetTime(n.createdAt) <= GetTime(n.updatedAt)
                 /\ GetTime(n.updatedAt) <= now'
                 /\ n.createdAt = ToISOString(GetTime(n.createdAt))
                 /\ n.updatedAt = ToISOString(GetTime(n.updatedAt))
                 /\ activeNoteId' = n.id]_vars

C10_Witness ==
    /\ lastOp.op = "create"
    /\ Len(notes) = 2
    /\ activeTagId # NULL
    /\ notes[1].tags = <<activeTagId>>
    /\ notes[1].id = lastOp.arg
    /\ notes[2] = StoredNote
    /\ activeNoteId = notes[1].id

\* C11 as stated: after a create performed with no active tag filter, the new
\* note has an empty tag list and is the first element of the filtered+sorted
\* view.
C11_CreatedNoteTopOfView ==
    (lastOp.op = "create" /\ activeTagId = NULL) =>
        \E i \in DOMAIN notes :
            /\ notes[i].id = lastOp.arg
            /\ notes[i].tags = <<>>
            /\ FilteredNotes # <<>>
            /\ Head(FilteredNotes) = notes[i]

\* No note was updated later than the note with identifier id.
NoneLaterThan(id) ==
    \A i \in DOMAIN notes : \A j \in DOMAIN notes :
        notes[i].id = id =>
            GetTime(notes[j].updatedAt) <= GetTime(notes[i].updatedAt)

\* C11 amended: after a create performed with no active tag filter, the new
\* note has an empty tag list; when also the search term is empty and no note
\* has a later updatedAt, it is the first element of the filtered+sorted view.
C11_CreatedNoteTopWhenUnfiltered ==
    (lastOp.op = "create" /\ activeTagId = NULL) =>
        \E i \in DOMAIN notes :
            /\ notes[i].id = lastOp.arg
            /\ notes[i].tags = <<>>
            /\ (searchTerm = <<>> /\ NoneLaterThan(lastOp.arg)) =>
                   /\ FilteredNotes # <<>>
                   /\ Head(FilteredNotes) = notes[i]

\* The new note ties with the stored one on updatedAt and is shown first.
C11_Witness ==
    /\ lastOp.op = "create"
    /\ activeTagId = NULL
    /\ searchTerm = <<>>
    /\ Len(FilteredNotes) = 2
    /\ Head(FilteredNotes).id = lastOp.arg
    /\ Head(FilteredNotes).tags = <<>>
    /\ FilteredNotes[2].updatedAt = Head(FilteredNotes).updatedAt

\* C12: save replaces exactly the note whose identifier matches, at the same
\* position; length, order and the identifier at every position are unchanged;
\* when no note matches the collection is unchanged; activeNoteId, activeTagId,
\* searchTerm and tags are never changed.
C12_SaveReplacesInPlace ==
    [][lastOp'.op = "save" =>
          /\ Len(notes') = Len(notes)
          /\ \A i \in DOMAIN notes : notes'[i].id = notes[i].id
          /\ \E u \in SaveInputs :
                /\ u.id = lastOp'.arg
                /\ \A i \in DOMAIN notes :
                      notes'[i] = IF notes[i].id = u.id THEN u ELSE notes[i]
          /\ lastOp'.arg \notin NoteIds => notes' = notes
          /\ activeNoteId' = activeNoteId
          /\ activeTagId' = activeTagId
          /\ searchTerm' = searchTerm
          /\ tags' = tags]_vars

\* A save replaced the second of two notes; the first one is as created.
C12_Witness ==
    /\ lastOp.op = "save"
    /\ Len(notes) = 2
    /\ notes[2].id = lastOp.arg
    /\ notes[2].title = <<"m">>
    /\ notes[1].title = <<>>
    /\ activeNoteId = notes[1].id

\* C13: in every state after startup, each tag identifier in the tag list of
\* a note is the identifier of a record of the tags collection.
C13_NoteTagsExist ==
    pc = "ready" =>
        \A i \in DOMAIN notes : \A k \in DOMAIN notes[i].tags :
            notes[i].tags[k] \in TagIds

\* C14: tag create appends exactly one record, with a fresh identifier and the
\* given name, at the end of tags and returns that record; after
\* initialization the tags of a state are a prefix of the tags of every later
\* state.
C14_TagsAppendOnly ==
    [][/\ lastOp'.op = "addTag" =>
            /\ Len(lastOp'.result) = 1
            /\ tags' = Append(tags, lastOp'.result[1])
            /\ lastOp'.result[1].id \notin TagIds \cup NoteIds
            /\ lastOp'.result[1].name \in TagNames
       /\ isInitialized =>
            /\ Len(tags') >= Len(tags)
            /\ SubSeq(tags', 1, Len(tags)) = tags]_vars

\* A tag was added behind the stored one and returned.
C14_Witness ==
    /\ lastOp.op = "addTag"
    /\ Len(tags) = 2
    /\ tags[1] = StoredTag
    /\ lastOp.result = <<tags[2]>>
    /\ tags[2].id = lastOp.arg

\* C15: in the interactive view the editor is shown exactly when activeNoteId
\* is set and the list exactly when it is null; activeNoteId is null or the
\* identifier of a note of the collection, in every reachable state.
C15_ActiveNoteExists ==
    /\ activeNoteId = NULL \/ activeNoteId \in NoteIds
    /\ Interactive =>
          /\ View = "editor" <=> activeNoteId # NULL
          /\ View = "list" <=> activeNoteId = NULL

\* The active note was deleted from the editor while another note remains: the
\* list is shown.
C15_Witness ==
    /\ lastOp.op = "delete"
    /\ lastOp.active = lastOp.arg
    /\ nextId > lastOp.arg
    /\ notes # <<>>
    /\ activeNoteId = NULL
    /\ View = "list"

\* C16: when the writes of both keys succeeded, a restart of the application
\* against the store yields notes and tags equal to the in-memory ones, record
\* for record and in the same order.
C16_RestartRoundTrip ==
    (pc = "ready" /\ ~errors.notes /\ ~errors.tags) =>
        /\ Restart(store).ok
        /\ Restart(store).notes = notes
        /\ Restart(store).tags = tags

\* Two notes, the loaded one and a created one that was edited, are in memory
\* and stored.
C16_Witness ==
    /\ pc = "ready"
    /\ ~errors.notes
    /\ ~errors.tags
    /\ Len(notes) = 2
    /\ notes[1].title = <<"m">>
    /\ notes[2] = StoredNote
    /\ Restart(store).notes = notes
    /\ Restart(store).tags = tags

\* C17: selecting a tag, or null for all notes, sets activeTagId to the given
\* value and isSidebarOpen to false, and leaves notes, tags, activeNoteId and
\* searchTerm unchanged.
C17_SelectTagFrame ==
    [][lastOp'.op = "selectTag" =>
          /\ activeTagId' = lastOp'.arg
          /\ isSidebarOpen' = FALSE
          /\ notes' = notes
          /\ tags' = tags
          /\ activeNoteId' = activeNoteId
          /\ searchTerm' = searchTerm]_vars

\* A tag was selected while a search term was set and notes were loaded.
C17_Witness ==
    /\ lastOp.op = "selectTag"
    /\ lastOp.arg = StoredTag.id
    /\ activeTagId = StoredTag.id
    /\ ~isSidebarOpen
    /\ searchTerm # <<>>
    /\ notes # <<>>

\* The notes at positions i < j of ns are at positions of ms in the same order.
InOrder(ns, ms) ==
    \A i \in DOMAIN ns : \A j \in DOMAIN ns :
        i < j => \E k \in DOMAIN ms : \E l \in DOMAIN ms :
                    k < l /\ ms[k] = ns[i] /\ ms[l] = ns[j]

\* C18: delete removes exactly the notes with the given identifier and keeps
\* the others in their relative order; an identifier that no note has leaves
\* notes and activeNoteId unchanged, so a repeated delete changes nothing; tags,
\* activeTagId and searchTerm are never changed.
C18_DeleteRemovesExactly ==
    [][lastOp'.op = "delete" =>
          /\ \A i \in DOMAIN notes' : notes'[i].id # lastOp'.arg
          /\ \A i \in DOMAIN notes :
                notes[i].id # lastOp'.arg =>
                    \E k \in DOMAIN notes' : notes'[k] = notes[i]
          /\ Len(notes') =
                Cardinality({i \in DOMAIN notes : notes[i].id # lastOp'.arg})
          /\ InOrder(notes', notes)
          /\ lastOp'.arg \notin NoteIds =>
                notes' = notes /\ activeNoteId' = activeNoteId
          /\ DeleteNote(notes', lastOp'.arg) = notes'
          /\ tags' = tags
          /\ activeTagId' = activeTagId
          /\ searchTerm' = searchTerm]_vars

\* The loaded note was deleted from the list, behind a created one that stays.
C18_Witness ==
    /\ lastOp.op = "delete"
    /\ lastOp.arg = StoredNote.id
    /\ lastOp.active = NULL
    /\ Len(notes) = 1
    /\ notes[1].id >= FirstFreshId
    /\ activeTagId # NULL

\* C19: the filtered+sorted view is derived, not stored: a step that selects a
\* tag or changes activeTagId or searchTerm leaves the notes collection as it
\* was, in content and in order, and leaves both stored values as they were.
C19_ViewChangesNothing ==
    [][(\/ lastOp'.op = "selectTag"
        \/ activeTagId' # activeTagId
        \/ searchTerm' # searchTerm) =>
          /\ notes' = notes
          /\ store' = store]_vars

\* A tag filter was selected over two notes that the view shows in another
\* order than the collection holds them.
C19_Witness ==
    /\ lastOp.op = "selectTag"
    /\ Len(notes) = 2
    /\ GetTime(notes[1].updatedAt) < GetTime(notes[2].updatedAt)
    /\ FilteredNotes # <<>>
    /\ Head(FilteredNotes) = notes[2]
    /\ store.notes_data = Item(Stringify(notes, NoteKeys))

\* C20: the two collections are persisted independently: create, save and
\* delete of a note never change the value stored under the tags key, and a
\* tag create never changes the value stored under the notes key.
C20_KeysIndependent ==
    [][/\ lastOp'.op \in {"create", "save", "delete"} =>
            store'.tags_data = store.tags_data
       /\ lastOp'.op = "addTag" =>
            store'.notes_data = store.notes_data]_vars

\* A tag create wrote the tags key while the notes key holds the notes.
C20_Witness ==
    /\ lastOp.op = "addTag"
    /\ ~errors.tags
    /\ store.tags_data = Item(Stringify(tags, TagKeys))
    /\ lastOp.result # <<>>
    /\ Head(lastOp.result) = tags[Len(tags)]
    /\ notes # <<>>
    /\ store.notes_data = Item(Stringify(notes, NoteKeys))

====
